---- MODULE Spec2Model ----
(***************************************************************************)
(* A model of the geospatial weather dashboard (dashboard-maps).           *)
(*                                                                         *)
(*   useWeatherData   the hook: expiring cache of fetched weather series,  *)
(*                    its durable copy in localStorage, the fallback to    *)
(*                    generated data, and the two readers of the current   *)
(*                    series (getPolygonAverage, getValueAtTime)           *)
(*   Index            the page: polygons, selection, time range and the    *)
(*                    recolouring of the polygons on a time change         *)
(*   MapView          the drawing workflow on the map surface              *)
(*   DataSourceSidebar the working set of data sources and its thresholds  *)
(*                                                                         *)
(* The components are React function components.  A callback reads the     *)
(* state of the render that created it; a callback memoised with an empty  *)
(* dependency list, or registered once in a mount effect, keeps reading    *)
(* the state of the first render.  The model keeps that distinction: the   *)
(* definitions named mount... are the values captured by such callbacks.   *)
(*                                                                         *)
(* Numbers that are measurements (temperature, humidity, wind speed,       *)
(* thresholds) are integers counting hundredths of the unit, and a mean is *)
(* the exact fraction <<sum, count>>.  Times are milliseconds.             *)
(***************************************************************************)
EXTENDS Integers, Sequences, FiniteSets, TLC

(***************************************************************************)
(* Bounds of the model.                                                    *)
(***************************************************************************)
MaxAdvances == 1
MaxRequests == 2
MaxInflight == 2
MockHours == 2
MaxSeriesLen == 2
WinMax == 3
MaxPolygons == 1
MaxClicks == 4
SliderMax == 1
MaxMoves == 3
MaxTestPolygons == 3
MaxTimers == 2

(***************************************************************************)
(* Constants of the program.                                               *)
(***************************************************************************)
CACHE_DURATION == 1800000
maxHours == 720
maxActive == 3

Epoch == 2 * CACHE_DURATION

Fields == {"temperature_2m", "relative_humidity_2m", "wind_speed_10m"}

NoError == "null"
NoKey == <<>>

VARIABLES
  \* useWeatherData
  now,          \* Date.now()
  storage,      \* localStorage item 'weather_data_cache'
  storageFails, \* localStorage of this browser can throw (access denied,
                \* quota exceeded, an item that is no JSON)
  mounted,      \* the mount effects have run
  cache,        \* useState: Map key -> CacheEntry
  data,         \* useState: the current series
  loading,      \* useState
  error,        \* useState
  inflight,     \* fetchWeatherData calls suspended at `await fetch`
  nreq,         \* external requests issued so far
  advances,     \* clock advances so far
  last,         \* the last step of the hook: what it was and for which key
  \* a direct call of one of the readers of the series, or of the colour rules
  probe,        \* the last such call: its arguments and what it returned
  \* Index
  polygons,         \* useState: the regions, in order of creation
  selectedPolygons, \* useState: ids
  timeRange,        \* useState: {start, end}
  isSingleTime,     \* useState
  \* TimelineSlider
  isRangeMode,      \* useState
  rangeValue,       \* useState: [start, end]
  currentValue,     \* useState: [hour]
  isPlaying,        \* useState
  \* MapView
  isDrawing,        \* useState
  currentPolygon,   \* useState: the points placed so far
  newPolygonName,   \* useState: the text of the name input
  selectedPolygon,  \* useState: an id, or null
  layers,           \* the map: the polygon painted on each layer polygon-i,
                    \* whose click handler selects it
  \* DataSourceSidebar
  activeDataSources, \* useState: the working set
  thresholds,       \* the thresholds object of each catalogue entry, which
                    \* the entries of the working set share
  catalogIsActive,  \* the isActive flag of each catalogue entry
  catalogAt,        \* the index in the working set of the object that is the
                    \* first catalogue entry itself (the initial state holds
                    \* it uncopied), 0 when the working set does not hold it
  \* what the user has done
  clicks,           \* clicks on the map surface in the open drawing session
  e2e,              \* progress of: draw four points, finish, set hour 0
  lastOp,           \* the last operation of the user on the page
  dashboard,        \* DashboardMetrics: the reducer's state (polygonCount,
                    \* isLoading, the values of the metrics) and the
                    \* timeouts of simulateDataUpdate still pending, each
                    \* with what its closure holds
  exported,         \* the last export: the document downloaded and the object
                    \* Index logged
  moves             \* playback ticks and skips so far

hookVars == <<now, storage, storageFails, mounted, cache, data, loading, error, inflight,
              nreq, advances, last>>

indexVars == <<polygons, selectedPolygons, timeRange, isSingleTime>>

timelineVars == <<isRangeMode, rangeValue, currentValue, isPlaying>>

mapVars == <<isDrawing, currentPolygon, newPolygonName, selectedPolygon>>

sidebarVars == <<activeDataSources, thresholds, catalogIsActive, catalogAt>>

userVars == <<clicks, e2e, moves>>

pageVars == <<indexVars, timelineVars, mapVars, sidebarVars, userVars, layers,
              lastOp, exported, dashboard>>

vars == <<hookVars, probe, pageVars>>

(***************************************************************************)
(* Small helpers: finite maps as functions.                                *)
(***************************************************************************)
EmptyMap == [k \in {} |-> 0]

MapSet(m, k, v) == [x \in DOMAIN m \cup {k} |-> IF x = k THEN v ELSE m[x]]

MapRestrict(m, keys) == [x \in keys |-> m[x]]

(***************************************************************************)
(* Query parameters and the cache key.                                     *)
(***************************************************************************)
Undefined == <<"undefined">>

\* The date of an hour of the timeline, as days from today.
getDateFromHour(hour) == <<"day", (hour \div 24) - 15>>

ParamsSet ==
  { [latitude |-> 4071, longitude |-> -7400, startDate |-> getDateFromHour(0),
     endDate |-> getDateFromHour(maxHours), hourly |-> Undefined],
    [latitude |-> 4071, longitude |-> -7400, startDate |-> getDateFromHour(0),
     endDate |-> getDateFromHour(maxHours), hourly |-> <<"temperature_2m", "wind_speed_10m">>],
    [latitude |-> 4071, longitude |-> -7400, startDate |-> getDateFromHour(0),
     endDate |-> getDateFromHour(maxHours), hourly |-> <<"wind_speed_10m", "temperature_2m">>] }

\* params.hourly?.join(',') || 'default': the list in the order given, and
\* 'default' for a missing or empty list (the empty string is falsy).
joinHourly(hourly) ==
  IF hourly = Undefined \/ hourly = <<>> THEN <<"default">> ELSE hourly

generateCacheKey(params) ==
  <<params.latitude, params.longitude, params.startDate, params.endDate,
    joinHourly(params.hourly)>>

(***************************************************************************)
(* Cache entries and their expiry.                                         *)
(***************************************************************************)
isFreshInclusive(timestamp, t) == t - timestamp <= CACHE_DURATION

isFresh(timestamp, t) == t - timestamp < CACHE_DURATION

\* Object.fromEntries(cache) written with JSON.stringify, read with
\* JSON.parse: the item is present and holds one property per key.
NoItem == [present |-> FALSE, obj |-> EmptyMap]

\* (JSON.stringify of the Map itself would write "{}")
saveCacheStringifiesMap(c) == [present |-> TRUE, obj |-> EmptyMap]

saveCache(c) == [present |-> TRUE, obj |-> c]

(***************************************************************************)
(* The weather provider's answers and their transformation.                *)
(***************************************************************************)
\* A cell of a column is <<v>> for the number v and <<>> for null.
PayloadA ==
  [time |-> <<0, 1>>,
   cols |-> [f \in Fields |->
              CASE f = "temperature_2m"       -> << <<1250>>, <<996>> >>
                [] f = "relative_humidity_2m" -> << <<5000>>, <<6500>> >>
                [] f = "wind_speed_10m"       -> << <<700>>, <<3100>> >>]]

PayloadB ==
  [time |-> <<0, 1, 2>>,
   cols |-> [f \in {"temperature_2m"} |-> << <<2600>>, <<>>, <<2496>> >>]]

Responses ==
  { [kind |-> "network_error", payload |-> PayloadA],
    [kind |-> "http_error",    payload |-> PayloadA],
    [kind |-> "no_hourly",     payload |-> PayloadA],
    [kind |-> "ok",            payload |-> PayloadA],
    [kind |-> "ok",            payload |-> PayloadB] }

\* result.hourly.<field>?.[index] || 0
orZero(cols, f, i) ==
  IF f \in DOMAIN cols /\ i <= Len(cols[f]) /\ cols[f][i] # <<>>
  THEN cols[f][i][1] ELSE 0

transform(payload) ==
  [i \in 1..Len(payload.time) |->
     [time                 |-> payload.time[i],
      temperature_2m       |-> orZero(payload.cols, "temperature_2m", i),
      relative_humidity_2m |-> orZero(payload.cols, "relative_humidity_2m", i),
      wind_speed_10m       |-> orZero(payload.cols, "wind_speed_10m", i)]]

errorMessage(kind) ==
  CASE kind = "http_error" -> "Weather API error"
    [] kind = "no_hourly"  -> "No hourly data received from API"
    [] OTHER               -> "Failed to fetch"

\* generateMockData draws its values with Math.random: any series of the
\* requested length whose values lie in the generator's ranges.
MockPoints ==
  { [time |-> 0, temperature_2m |-> 1500, relative_humidity_2m |-> 4000,
     wind_speed_10m |-> 500],
    [time |-> 0, temperature_2m |-> 400, relative_humidity_2m |-> 7900,
     wind_speed_10m |-> 2900] }

generateMockData(params) ==
  { [i \in 1..MockHours |-> [pt EXCEPT !.time = i - 1]] : pt \in MockPoints }

(***************************************************************************)
(* useWeatherData: initial state.  The durable item is whatever an earlier *)
(* session left: nothing, or entries of any age.                           *)
(***************************************************************************)
StoredAges == {CACHE_DURATION - 1, CACHE_DURATION, CACHE_DURATION + 1}

StoredEntry(p, age) ==
  [data |-> transform(PayloadA), timestamp |-> Epoch - age, params |-> p]

InitialStorages ==
  {NoItem} \cup
  { saveCache([k \in {generateCacheKey(p)} |-> StoredEntry(p, age)]) :
      p \in ParamsSet, age \in StoredAges }

InitHook ==
  /\ now = Epoch
  /\ storage \in InitialStorages
  /\ mounted = FALSE
  /\ cache = EmptyMap
  /\ data = <<>>
  /\ loading = FALSE
  /\ error = NoError
  /\ inflight = {}
  /\ nreq = 0
  /\ advances = 0
  /\ last = [op |-> "none", key |-> NoKey, id |-> 0]

(***************************************************************************)
(* The mount effects: load the durable item, dropping expired entries,     *)
(* then save the cache (the save effect runs on mount and again after the  *)
(* loaded map has been set).                                               *)
(***************************************************************************)
loadCache(item, t) ==
  IF item.present
  THEN MapRestrict(item.obj,
                   {k \in DOMAIN item.obj : isFresh(item.obj[k].timestamp, t)})
  ELSE EmptyMap

\* What the save effect leaves in the item: what it writes, or, when setItem
\* throws, what was there (the effect catches and warns).
saved(item, c) == IF storageFails THEN {item, saveCache(c)} ELSE {saveCache(c)}

\* A load that throws is caught: setCache is not called and the cache stays
\* the empty map of useState.
Mount ==
  /\ ~mounted
  /\ mounted' = TRUE
  /\ \/ cache' = loadCache(storage, now)
     \/ storageFails /\ cache' = EmptyMap
  /\ storage' \in (IF storageFails THEN saved(storage, EmptyMap) ELSE {})
                   \cup saved(storage, cache')
  /\ last' = [op |-> "mount", key |-> NoKey, id |-> 0]
  /\ UNCHANGED <<now, storageFails, data, loading, error, inflight, nreq, advances>>

(***************************************************************************)
(* Time passes.                                                            *)
(***************************************************************************)
AdvanceSteps == {CACHE_DURATION}

Advance ==
  /\ mounted
  /\ advances < MaxAdvances
  /\ \E d \in AdvanceSteps : now' = now + d
  /\ advances' = advances + 1
  /\ last' = [op |-> "advance", key |-> NoKey, id |-> 0]
  /\ UNCHANGED <<storage, storageFails, mounted, cache, data, loading, error,
                 inflight, nreq>>

(***************************************************************************)
(* fetchWeatherData, up to `await fetch`: a valid entry of the cache of    *)
(* the current render is served; otherwise one request is issued and the   *)
(* call is suspended, holding the cache of the render that created it.     *)
(***************************************************************************)
cacheHitInverted(c, key, t) == key \in DOMAIN c /\ ~isFresh(c[key].timestamp, t)

cacheHit(c, key, t) == key \in DOMAIN c /\ isFresh(c[key].timestamp, t)

fetchWeatherData(params) ==
  LET cacheKey == generateCacheKey(params) IN
  /\ mounted
  /\ IF cacheHit(cache, cacheKey, now)
     THEN /\ data' = cache[cacheKey].data
          /\ loading' = FALSE
          /\ error' = NoError
          /\ last' = [op |-> "hit", key |-> cacheKey, id |-> 0]
          /\ UNCHANGED <<inflight, nreq>>
     ELSE /\ nreq < MaxRequests
          /\ Cardinality(inflight) < MaxInflight
          /\ loading' = TRUE
          /\ error' = NoError
          /\ nreq' = nreq + 1
          /\ inflight' = inflight \cup
               {[id |-> nreq + 1, params |-> params, key |-> cacheKey,
                 cache |-> cache]}
          /\ last' = [op |-> "request", key |-> cacheKey, id |-> nreq + 1]
          /\ UNCHANGED data
  /\ UNCHANGED <<now, storage, storageFails, mounted, cache, advances>>

FetchCall == \E params \in ParamsSet : fetchWeatherData(params)

(***************************************************************************)
(* fetchWeatherData, from the provider's answer on.  A good answer is      *)
(* transformed, made current and inserted into a copy of the cache the     *)
(* call holds; the save effect then rewrites the durable item.  Any        *)
(* failure makes a generated series current and leaves the cache alone.    *)
(***************************************************************************)
insertEntry(c, key, series, t, params) ==
  MapSet(c, key, [data |-> series, timestamp |-> t, params |-> params])

fetchResumeCachesFallback(call, resp) ==
  /\ inflight' = inflight \ {call}
  /\ loading' = FALSE
  /\ IF resp.kind = "ok"
     THEN /\ data' = transform(resp.payload)
          /\ error' = error
          /\ last' = [op |-> "stored", key |-> call.key, id |-> call.id]
     ELSE /\ error' = errorMessage(resp.kind)
          /\ data' \in generateMockData(call.params)
          /\ last' = [op |-> "fallback", key |-> call.key, id |-> call.id]
  /\ cache' = insertEntry(call.cache, call.key, data', now, call.params)
  /\ storage' \in saved(storage, cache')
  /\ UNCHANGED <<now, storageFails, mounted, nreq, advances>>

\* (were the calls sequenced by a token, the answer to any call but the
\* latest would be dropped)
fetchResumeDropsStale(call, resp) ==
  /\ inflight' = inflight \ {call}
  /\ loading' = FALSE
  /\ IF call.id < nreq
     THEN /\ last' = [op |-> "dropped", key |-> call.key, id |-> call.id]
          /\ UNCHANGED <<data, cache, storage, error>>
     ELSE IF resp.kind = "ok"
     THEN /\ data' = transform(resp.payload)
          /\ cache' = insertEntry(call.cache, call.key, data', now, call.params)
          /\ storage' \in saved(storage, cache')
          /\ error' = error
          /\ last' = [op |-> "stored", key |-> call.key, id |-> call.id]
     ELSE /\ error' = errorMessage(resp.kind)
          /\ data' \in generateMockData(call.params)
          /\ last' = [op |-> "fallback", key |-> call.key, id |-> call.id]
          /\ UNCHANGED <<cache, storage>>
  /\ UNCHANGED <<now, storageFails, mounted, nreq, advances>>

fetchResume(call, resp) ==
  /\ inflight' = inflight \ {call}
  /\ loading' = FALSE
  /\ IF resp.kind = "ok"
     THEN /\ data' = transform(resp.payload)
          /\ cache' = insertEntry(call.cache, call.key, data', now, call.params)
          /\ storage' \in saved(storage, cache')
          /\ error' = error
          /\ last' = [op |-> "stored", key |-> call.key, id |-> call.id]
     ELSE /\ error' = errorMessage(resp.kind)
          /\ data' \in generateMockData(call.params)
          /\ last' = [op |-> "fallback", key |-> call.key, id |-> call.id]
          /\ UNCHANGED <<cache, storage>>
  /\ UNCHANGED <<now, storageFails, mounted, nreq, advances>>

FetchResume == \E call \in inflight : \E resp \in Responses : fetchResume(call, resp)

(***************************************************************************)
(* clearCache: the map is replaced by an empty one and the item removed;   *)
(* the save effect, run for the new map, writes the empty object.          *)
(* removeItem is called outside any try: when it throws, the exception     *)
(* leaves clearCache before the toast, with setCache(new Map()) already    *)
(* queued, so the map is still replaced and the save effect still runs.    *)
(***************************************************************************)
clearCache ==
  /\ mounted
  /\ cache' = EmptyMap
  /\ \/ /\ storage' \in saved(NoItem, cache')
        /\ last' = [op |-> "clear", key |-> NoKey, id |-> 0]
     \/ /\ storageFails
        /\ storage' \in saved(storage, cache')
        /\ last' = [op |-> "clear threw", key |-> NoKey, id |-> 0]
  /\ UNCHANGED <<now, storageFails, mounted, data, loading, error, inflight,
                 nreq, advances>>


(***************************************************************************)
(* The readers of the current series.  A number returned is the fraction   *)
(* <<numerator, denominator>> of hundredths.                               *)
(***************************************************************************)
Max(a, b) == IF a >= b THEN a ELSE b
Min(a, b) == IF a <= b THEN a ELSE b
clamp(x, lo, hi) == Max(lo, Min(x, hi))

Zero == <<0, 1>>

NumEq(a, b) == a[1] * b[2] = b[1] * a[2]
NumLt(a, b) == a[1] * b[2] < b[1] * a[2]

\* typeof value === 'number' ? value : 0  (the field time holds a string)
numberOrZero(point, field) == IF field = "time" THEN 0 ELSE point[field]

\* Array.prototype.slice(begin, end) on indices counted from 0
slice(d, begin, end) ==
  LET len == Len(d)
      b == IF begin < 0 THEN Max(len + begin, 0) ELSE Min(begin, len)
      e == IF end < 0 THEN Max(len + end, 0) ELSE Min(end, len)
  IN  IF b >= e THEN <<>> ELSE [i \in 1..(e - b) |-> d[b + i]]

RECURSIVE sumField(_, _)
sumField(points, field) ==
  IF points = <<>> THEN 0
  ELSE numberOrZero(Head(points), field) + sumField(Tail(points), field)

\* coordinates.reduce(...).map(sum => sum / coordinates.length): the two sums
\* and the number of vertices they are divided by
centroid(coordinates) ==
  LET RECURSIVE total(_, _)
      total(cs, k) == IF cs = <<>> THEN 0 ELSE Head(cs)[k] + total(Tail(cs), k)
  IN  <<total(coordinates, 1), total(coordinates, 2), Len(coordinates)>>

getPolygonAverageExclusiveEnd(d, coordinates, field, timeStart, timeEnd) ==
  IF Len(d) = 0 THEN Zero
  ELSE LET startIndex == Max(0, timeStart)
           endIndex == Min(Len(d) - 1, timeEnd)
           relevantData == slice(d, startIndex, endIndex)
       IN  IF Len(relevantData) = 0 THEN Zero
           ELSE <<sumField(relevantData, field), Len(relevantData)>>

getPolygonAverage(d, coordinates, field, timeStart, timeEnd) ==
  IF Len(d) = 0 THEN Zero
  ELSE LET startIndex == Max(0, timeStart)
           endIndex == Min(Len(d) - 1, timeEnd)
           relevantData == slice(d, startIndex, endIndex + 1)
       IN  IF Len(relevantData) = 0 THEN Zero
           ELSE <<sumField(relevantData, field), Len(relevantData)>>

getValueAtTimeOneBased(d, coordinates, field, timeIndex) ==
  IF Len(d) = 0 \/ timeIndex <= 0 \/ timeIndex > Len(d) THEN Zero
  ELSE <<numberOrZero(d[timeIndex], field), 1>>

getValueAtTime(d, coordinates, field, timeIndex) ==
  IF Len(d) = 0 \/ timeIndex < 0 \/ timeIndex >= Len(d) THEN Zero
  ELSE <<numberOrZero(d[timeIndex + 1], field), 1>>

(***************************************************************************)
(* The colour rules of updatePolygonColors and its rounding of the value.  *)
(***************************************************************************)
Purple == "#8b5cf6"
Green == "#22c55e"
Orange == "#f59e0b"
Red == "#ef4444"

Hundredths(n) == <<n, 1>>

colorRulesModerateFirst(avgValue) ==
  IF NumLt(avgValue, Hundredths(2500)) THEN Orange
  ELSE IF NumLt(avgValue, Hundredths(1000)) THEN Green
  ELSE Red

colorRules(avgValue) ==
  IF NumLt(avgValue, Hundredths(1000)) THEN Green
  ELSE IF NumLt(avgValue, Hundredths(2500)) THEN Orange
  ELSE Red

\* Math.round(avgValue * 10) / 10, in hundredths
roundTenths(avgValue) ==
  10 * ((avgValue[1] + 5 * avgValue[2]) \div (10 * avgValue[2]))

(***************************************************************************)
(* DataSourceSidebar: the catalogue of data sources.                       *)
(***************************************************************************)
Levels == <<"low", "medium", "high">>

threshold(value, color, operator, label) ==
  [value |-> value, color |-> color, operator |-> operator, label |-> label]

availableDataSources ==
  << [id |-> "temperature_2m", field |-> "temperature_2m",
      thresholds |-> [low    |-> threshold(1000, Green, "<", "Cold"),
                      medium |-> threshold(2500, Orange, "<", "Moderate"),
                      high   |-> threshold(2500, Red, ">=", "Hot")],
      isActive |-> TRUE],
     [id |-> "relative_humidity_2m", field |-> "relative_humidity_2m",
      thresholds |-> [low    |-> threshold(3000, Green, "<", "Dry"),
                      medium |-> threshold(7000, Orange, "<", "Comfortable"),
                      high   |-> threshold(7000, Red, ">=", "Humid")],
      isActive |-> FALSE],
     [id |-> "wind_speed_10m", field |-> "wind_speed_10m",
      thresholds |-> [low    |-> threshold(1000, Green, "<", "Calm"),
                      medium |-> threshold(3000, Orange, "<", "Breezy"),
                      high   |-> threshold(3000, Red, ">=", "Windy")],
      isActive |-> FALSE] >>

(***************************************************************************)
(* Direct calls of the readers and of the colour rules, on any series.     *)
(***************************************************************************)
EnginePoints ==
  { [time |-> 0, temperature_2m |-> 996, relative_humidity_2m |-> 6500,
     wind_speed_10m |-> 3100],
    [time |-> 0, temperature_2m |-> 2490, relative_humidity_2m |-> 2900,
     wind_speed_10m |-> 700],
    [time |-> 0, temperature_2m |-> 2600, relative_humidity_2m |-> 7000,
     wind_speed_10m |-> 1000] }

EngineSeries ==
  UNION { [1..n -> EnginePoints] : n \in 0..MaxSeriesLen }

Hours == 0..WinMax

ProbeFields == Fields \cup {"time"}

ProbeValues ==
  {Hundredths(v) : v \in {-100, 0, 999, 1000, 1001, 2490, 2499, 2500, 2501, 4000}}
    \cup {<<1999, 2>>, <<4999, 2>>, <<5000, 2>>}

DemoCoordinates ==
  << <<-740060, 407128>>, <<-740020, 407128>>, <<-740020, 407148>>,
     <<-740060, 407148>>, <<-740060, 407128>> >>

NoProbe == [op |-> "none", field |-> "time", start |-> 0, end |-> 0,
            arg |-> Zero, result |-> Zero, color |-> Purple]

(***************************************************************************)
(* The page.  Initial state: every component has mounted, the timeline's   *)
(* effect has reported its default range to Index, nothing was persisted.  *)
(***************************************************************************)
NoValue == <<>>

initialActive == [id |-> availableDataSources[1].id,
                  field |-> availableDataSources[1].field,
                  isActive |-> availableDataSources[1].isActive]

initialThresholds ==
  [id \in {availableDataSources[i].id : i \in 1..Len(availableDataSources)} |->
     LET i == CHOOSE j \in 1..Len(availableDataSources) :
                availableDataSources[j].id = id
     IN  availableDataSources[i].thresholds]

initialFlags ==
  [id \in {availableDataSources[i].id : i \in 1..Len(availableDataSources)} |->
     LET i == CHOOSE j \in 1..Len(availableDataSources) :
                availableDataSources[j].id = id
     IN  availableDataSources[i].isActive]

\* a JSON document of the export/import: has holds the names of the fields
\* the document has, and the other fields of the record are read only for
\* the names in has
NoWindow == [start |-> 0, end |-> 0]

noDocument ==
  [has |-> {}, polygons |-> <<>>, selectedPolygons |-> <<>>, timeRange |-> NoWindow]

NoExport ==
  [made |-> FALSE, file |-> noDocument,
   logged |-> [polygons |-> <<>>, selectedPolygons |-> <<>>, timeRange |-> NoWindow]]

\* DashboardMetrics: regions is the value of the metric 'total-regions',
\* dataPoints that of 'data-points', avgTemp that of 'avg-temp' in tenths of
\* a degree (<<>> for '--')
initialState ==
  [polygonCount |-> 0, isLoading |-> FALSE, regions |-> 0, dataPoints |-> 0,
   avgTemp |-> <<>>, pending |-> <<>>]

null == <<"null">>

NoName == <<>>

Op(name) == [op |-> name, id |-> null, removed |-> 0]

\* the page but for the drawing session
InitOutsideSession ==
  /\ polygons = <<>>
  /\ selectedPolygons = <<>>
  /\ timeRange = [start |-> 336, end |-> 384]
  /\ isSingleTime = FALSE
  /\ isRangeMode = TRUE
  /\ rangeValue = <<336, 384>>
  /\ currentValue = <<360>>
  /\ activeDataSources = <<initialActive>>
  /\ thresholds = initialThresholds
  /\ catalogIsActive = initialFlags
  /\ catalogAt = 1
  /\ isPlaying = FALSE
  /\ selectedPolygon = null
  /\ layers = <<>>
  /\ lastOp = Op("none")
  /\ exported = NoExport
  /\ dashboard = initialState
  /\ moves = 0

InitPage ==
  /\ InitOutsideSession
  /\ isDrawing = FALSE
  /\ currentPolygon = <<>>
  /\ newPolygonName = NoName
  /\ clicks = 0
  /\ e2e = "start"

InitMounted ==
  /\ now = Epoch
  /\ storage = saveCache(EmptyMap)
  /\ storageFails = FALSE
  /\ mounted = TRUE
  /\ cache = EmptyMap
  /\ data = <<>>
  /\ loading = FALSE
  /\ error = NoError
  /\ inflight = {}
  /\ nreq = 0
  /\ advances = 0
  /\ last = [op |-> "mount", key |-> NoKey, id |-> 0]
  /\ probe = NoProbe

InitDash == InitMounted /\ InitPage

(***************************************************************************)
(* What the callbacks created by the first render hold.                    *)
(*   handleTimeRangeChange and handleSingleTimeChange are memoised with an *)
(*   empty dependency list: they call the updatePolygonColors of the first *)
(*   render, which reads the isSingleTime of that render and the readers   *)
(*   of the hook's first render, whose series is the initial one.          *)
(*   handleMapClick is registered once, by the map's mount effect: it      *)
(*   reads the isDrawing and currentPolygon of the first render.           *)
(***************************************************************************)
mountData == <<>>
mountIsSingleTime == FALSE
mountIsDrawing == FALSE
mountCurrentPolygon == <<>>

(***************************************************************************)
(* MapView's effect on [polygons, selectedPolygon]: the layers polygon-0   *)
(* .. polygon-(n-1), n the number of polygons now, are removed and added   *)
(* again, each with a click handler selecting its polygon.  A layer with   *)
(* a higher index, left by a longer list, stays as it is.                  *)
(***************************************************************************)
paint(prevLayers, ps) ==
  [i \in 1..Max(Len(prevLayers), Len(ps)) |->
     IF i <= Len(ps) THEN ps[i] ELSE prevLayers[i]]

repaint == layers' = paint(layers, polygons')

(***************************************************************************)
(* Index                                                                   *)
(***************************************************************************)
recolor(polygon, single, d, startHour, endHour) ==
  LET avgValue ==
        IF single
        THEN getValueAtTime(d, polygon.coordinates, "temperature_2m", startHour)
        ELSE getPolygonAverage(d, polygon.coordinates, "temperature_2m",
                               startHour, endHour)
  IN  [polygon EXCEPT !.value = <<roundTenths(avgValue)>>,
                      !.color = colorRules(avgValue)]

updatePolygonColors(prevPolygons, single, d, startHour, endHour) ==
  [i \in 1..Len(prevPolygons) |->
     recolor(prevPolygons[i], single, d, startHour, endHour)]

handleTimeRangeChange(startHour, endHour) ==
  /\ timeRange' = [start |-> startHour, end |-> endHour]
  /\ isSingleTime' = FALSE
  /\ polygons' = updatePolygonColors(polygons, mountIsSingleTime, mountData,
                                     startHour, endHour)
  /\ UNCHANGED selectedPolygons

handleSingleTimeChange(hour) ==
  /\ timeRange' = [start |-> hour, end |-> hour]
  /\ isSingleTime' = TRUE
  /\ polygons' = updatePolygonColors(polygons, mountIsSingleTime, mountData,
                                     hour, hour)
  /\ UNCHANGED selectedPolygons

centroidParams(coordinates) ==
  LET c == centroid(coordinates) IN
  [latitude |-> <<c[2], c[3]>>, longitude |-> <<c[1], c[3]>>,
   startDate |-> getDateFromHour(0), endDate |-> getDateFromHour(maxHours),
   hourly |-> Undefined]

handlePolygonCreate(polygon) ==
  /\ Len(polygons) < MaxPolygons
  /\ polygons' = Append(polygons, polygon)
  /\ selectedPolygons' = Append(selectedPolygons, polygon.id)
  /\ fetchWeatherData(centroidParams(polygon.coordinates))
  /\ UNCHANGED <<timeRange, isSingleTime>>

handleDataSourceChange(prevPolygons, polygonId, dataSource) ==
  [i \in 1..Len(prevPolygons) |->
     IF prevPolygons[i].id = polygonId
     THEN [prevPolygons[i] EXCEPT !.dataSource = dataSource.field]
     ELSE prevPolygons[i]]

\* The callback Index hands to DashboardMetrics as onPolygonCreate: a fixed
\* square handed to handlePolygonCreate.  (DashboardMetrics takes the prop;
\* its own "Add Test Polygon" button only counts.)
addDemoPolygon ==
  /\ handlePolygonCreate(
       [id |-> <<"polygon", now>>,
        name |-> <<"Demo Region", Len(polygons) + 1>>,
        coordinates |-> DemoCoordinates,
        dataSource |-> "temperature_2m",
        color |-> Purple,
        value |-> NoValue])
  /\ e2e' = "off"
  /\ repaint
  /\ lastOp' = Op("create")
  /\ UNCHANGED <<probe, exported, dashboard, timelineVars, mapVars, sidebarVars, clicks, moves>>

(***************************************************************************)
(* DashboardMetrics.  simulateDataUpdate sets isLoading and starts a       *)
(* timeout of one second whose callback holds the timeRange, polygonCount  *)
(* and metrics of the render that created it.  The effect on [timeRange,   *)
(* simulateDataUpdate, polygonCount] calls simulateDataUpdate whenever one *)
(* of timeRange, polygonCount and metrics has become a new value and       *)
(* polygonCount is positive.  The dispatches of one callback are applied   *)
(* together.                                                               *)
(***************************************************************************)
simulateDataUpdate(state, window) ==
  [state EXCEPT !.isLoading = TRUE,
                !.pending = Append(@, [hours |-> window.end - window.start,
                                       polygonCount |-> state.polygonCount,
                                       regions |-> state.regions])]

refreshEffect(state, window) ==
  IF state.polygonCount > 0 THEN simulateDataUpdate(state, window) ELSE state

\* the effect after timeRange has become a new object
metricsEffect ==
  /\ dashboard.polygonCount > 0 => Len(dashboard.pending) < MaxTimers
  /\ dashboard' = refreshEffect(dashboard, timeRange')

\* Add Test Polygon: INCREMENT_POLYGONS, then the effect
addTestPolygon ==
  /\ dashboard.polygonCount < MaxTestPolygons
  /\ LET newCount == dashboard.polygonCount + 1
     IN  dashboard' = refreshEffect([dashboard EXCEPT !.polygonCount = newCount,
                                                      !.regions = newCount],
                                    timeRange)
  /\ lastOp' = Op("addTestPolygon")
  /\ UNCHANGED <<hookVars, probe, exported, indexVars, timelineVars, mapVars,
                 sidebarVars, userVars, layers>>

\* Refresh Data, disabled while isLoading
refreshData ==
  /\ ~dashboard.isLoading
  /\ dashboard' = simulateDataUpdate(dashboard, timeRange)
  /\ lastOp' = Op("refreshData")
  /\ UNCHANGED <<hookVars, probe, exported, indexVars, timelineVars, mapVars,
                 sidebarVars, userVars, layers>>

\* avgTemp is 15 + Math.random() * 10, shown with one decimal
AvgTemps == { <<150>>, <<249>> }

\* The timeout that has waited longest fires: UPDATE_METRICS with the metrics
\* its closure holds, avg-temp and data-points replaced, and SET_LOADING
\* false; then the effect, for the new metrics.
refreshTimer ==
  /\ dashboard.pending # <<>>
  /\ \E t \in AvgTemps :
       LET closure == Head(dashboard.pending)
           updated == [dashboard EXCEPT !.regions = closure.regions,
                                        !.dataPoints = closure.hours * closure.polygonCount,
                                        !.avgTemp = t,
                                        !.isLoading = FALSE,
                                        !.pending = Tail(@)]
       IN  dashboard' = refreshEffect(updated, timeRange)
  /\ UNCHANGED <<hookVars, probe, exported, indexVars, timelineVars, mapVars,
                 sidebarVars, userVars, layers, lastOp>>

(***************************************************************************)
(* TimelineSlider: a change of the slider or of the mode, followed by the  *)
(* effect that reports the window to Index.                                *)
(***************************************************************************)
SliderHours == 0..SliderMax

nextE2E(single, hour) ==
  IF e2e = "finished" /\ inflight = {}
  THEN (IF single /\ hour = 0 THEN "done" ELSE "finished")
  ELSE IF e2e \in {"start", "drawing"} THEN e2e
  ELSE "off"

reportWindow(rangeMode, range, current) ==
  /\ IF rangeMode
     THEN /\ handleTimeRangeChange(range[1], range[2])
          /\ e2e' = nextE2E(FALSE, range[1])
     ELSE /\ handleSingleTimeChange(current[1])
          /\ e2e' = nextE2E(TRUE, current[1])
  /\ repaint
  /\ metricsEffect

SliderChange ==
  /\ ~isPlaying
  /\ IF isRangeMode
     THEN /\ \E a \in SliderHours, b \in SliderHours :
               a <= b /\ rangeValue' = <<a, b>>
          /\ UNCHANGED currentValue
     ELSE /\ \E h \in SliderHours : currentValue' = <<h>>
          /\ UNCHANGED rangeValue
  /\ UNCHANGED <<isRangeMode, isPlaying>>
  /\ reportWindow(isRangeMode', rangeValue', currentValue')
  /\ lastOp' = Op("slider")
  /\ UNCHANGED <<hookVars, probe, exported, mapVars, sidebarVars, clicks, moves>>

toggleRangeMode ==
  /\ isRangeMode' = ~isRangeMode
  /\ UNCHANGED <<rangeValue, currentValue, isPlaying>>
  /\ reportWindow(isRangeMode', rangeValue', currentValue')
  /\ lastOp' = Op("toggleMode")
  /\ UNCHANGED <<hookVars, probe, exported, mapVars, sidebarVars, clicks, moves>>

\* the slider dragged over its whole scale (min 0, max maxHours, step 1); the
\* stops are the hours next to the two ends of the scale
SliderStops == {0, 23, maxHours - 25, maxHours - 2, maxHours - 1, maxHours}

SliderDrag ==
  /\ ~isPlaying
  /\ IF isRangeMode
     THEN /\ \E a \in SliderStops, b \in SliderStops :
               a <= b /\ rangeValue' = <<a, b>>
          /\ UNCHANGED currentValue
     ELSE /\ \E h \in SliderStops : currentValue' = <<h>>
          /\ UNCHANGED rangeValue
  /\ UNCHANGED <<isRangeMode, isPlaying>>
  /\ reportWindow(isRangeMode', rangeValue', currentValue')
  /\ lastOp' = Op("slider")
  /\ UNCHANGED <<hookVars, probe, exported, mapVars, sidebarVars, clicks, moves>>

\* the quick presets: Last 2 Days, Last 5 Days, Last Week
Presets == { <<336, 384>>, <<264, 384>>, <<216, 384>> }

selectPreset ==
  /\ isRangeMode' = TRUE
  /\ \E preset \in Presets : rangeValue' = preset
  /\ UNCHANGED <<currentValue, isPlaying>>
  /\ reportWindow(isRangeMode', rangeValue', currentValue')
  /\ lastOp' = Op("preset")
  /\ UNCHANGED <<hookVars, probe, exported, mapVars, sidebarVars, clicks, moves>>

handlePlayPause ==
  /\ isPlaying' = ~isPlaying
  /\ lastOp' = Op("playPause")
  /\ UNCHANGED <<isRangeMode, rangeValue, currentValue>>
  /\ UNCHANGED <<hookVars, probe, exported, dashboard, indexVars, mapVars, sidebarVars, userVars,
                 layers>>

handleSkipBack ==
  /\ moves < MaxMoves
  /\ moves' = moves + 1
  /\ IF isRangeMode
     THEN /\ rangeValue' = <<Max(rangeValue[1] - 24, 0),
                             Max(rangeValue[2] - 24, 24)>>
          /\ UNCHANGED currentValue
     ELSE /\ currentValue' = <<Max(currentValue[1] - 24, 0)>>
          /\ UNCHANGED rangeValue
  /\ UNCHANGED <<isRangeMode, isPlaying>>
  /\ reportWindow(isRangeMode', rangeValue', currentValue')
  /\ lastOp' = Op("skipBack")
  /\ UNCHANGED <<hookVars, probe, exported, mapVars, sidebarVars, clicks>>

handleSkipForwardUnclamped ==
  /\ moves < MaxMoves
  /\ moves' = moves + 1
  /\ IF isRangeMode
     THEN /\ rangeValue' = <<rangeValue[1] + 24, rangeValue[2] + 24>>
          /\ UNCHANGED currentValue
     ELSE /\ currentValue' = <<currentValue[1] + 24>>
          /\ UNCHANGED rangeValue
  /\ UNCHANGED <<isRangeMode, isPlaying>>
  /\ reportWindow(isRangeMode', rangeValue', currentValue')
  /\ lastOp' = Op("skipForward")
  /\ UNCHANGED <<hookVars, probe, exported, mapVars, sidebarVars, clicks>>

handleSkipForward ==
  /\ moves < MaxMoves
  /\ moves' = moves + 1
  /\ IF isRangeMode
     THEN /\ rangeValue' = <<Min(rangeValue[1] + 24, maxHours - 24),
                             Min(rangeValue[2] + 24, maxHours)>>
          /\ UNCHANGED currentValue
     ELSE /\ currentValue' = <<Min(currentValue[1] + 24, maxHours)>>
          /\ UNCHANGED rangeValue
  /\ UNCHANGED <<isRangeMode, isPlaying>>
  /\ reportWindow(isRangeMode', rangeValue', currentValue')
  /\ lastOp' = Op("skipForward")
  /\ UNCHANGED <<hookVars, probe, exported, mapVars, sidebarVars, clicks>>

\* One firing of the playback interval, which runs while isPlaying.  At the
\* end of the scale the updater stops playback and returns the value it was
\* given, so the reporting effect does not run; otherwise the new value is
\* reported to Index.
playbackTickNeverStops ==
  /\ isPlaying
  /\ moves < MaxMoves
  /\ moves' = moves + 1
  /\ IF isRangeMode
     THEN LET rangeSize == rangeValue[2] - rangeValue[1]
              newStart == Min(rangeValue[1] + 1, maxHours - rangeSize)
              newEnd == Min(rangeValue[2] + 1, maxHours)
          IN  /\ rangeValue' = <<newStart, newEnd>>
              /\ UNCHANGED currentValue
     ELSE /\ currentValue' = <<Min(currentValue[1] + 1, maxHours)>>
          /\ UNCHANGED rangeValue
  /\ UNCHANGED <<isRangeMode, isPlaying>>
  /\ reportWindow(isRangeMode', rangeValue', currentValue')
  /\ lastOp' = Op("tick")
  /\ UNCHANGED <<hookVars, probe, exported, mapVars, sidebarVars, clicks>>

playbackTick ==
  /\ isPlaying
  /\ moves < MaxMoves
  /\ moves' = moves + 1
  /\ LET rangeSize == rangeValue[2] - rangeValue[1]
         newStart == Min(rangeValue[1] + 1, maxHours - rangeSize)
         newEnd == Min(rangeValue[2] + 1, maxHours)
         newValue == Min(currentValue[1] + 1, maxHours)
         stops == IF isRangeMode THEN newEnd >= maxHours
                  ELSE newValue >= maxHours
     IN  IF stops
         THEN /\ isPlaying' = FALSE
              /\ UNCHANGED <<isRangeMode, rangeValue, currentValue>>
              /\ UNCHANGED <<indexVars, layers, e2e, dashboard>>
         ELSE /\ IF isRangeMode
                 THEN rangeValue' = <<newStart, newEnd>> /\ UNCHANGED currentValue
                 ELSE currentValue' = <<newValue>> /\ UNCHANGED rangeValue
              /\ UNCHANGED <<isRangeMode, isPlaying>>
              /\ reportWindow(isRangeMode', rangeValue', currentValue')
  /\ lastOp' = Op("tick")
  /\ UNCHANGED <<hookVars, probe, exported, mapVars, sidebarVars, clicks>>

(***************************************************************************)
(* MapView: the drawing workflow.  The button is Draw while no session is  *)
(* open and Finish while one is; Cancel is shown while one is open.        *)
(***************************************************************************)
ClickPoints ==
  { <<-740060, 407128>>, <<-740020, 407128>>, <<-740020, 407148>>,
    <<-740060, 407148>> }

startDrawingAnyTime ==
  /\ isDrawing' = TRUE
  /\ currentPolygon' = <<>>
  /\ clicks' = 0
  /\ e2e' = "off"
  /\ lastOp' = Op("startDrawing")
  /\ UNCHANGED <<hookVars, probe, exported, dashboard, indexVars, timelineVars, sidebarVars,
                 newPolygonName, selectedPolygon, layers, moves>>

startDrawing ==
  /\ ~isDrawing
  /\ isDrawing' = TRUE
  /\ currentPolygon' = <<>>
  /\ clicks' = 0
  /\ e2e' = IF e2e = "start" /\ polygons = <<>> THEN "drawing" ELSE "off"
  /\ lastOp' = Op("startDrawing")
  /\ UNCHANGED <<hookVars, probe, exported, dashboard, indexVars, timelineVars, sidebarVars,
                 newPolygonName, selectedPolygon, layers, moves>>

handleMapClick(coords) ==
  IF ~mountIsDrawing THEN UNCHANGED currentPolygon
  ELSE currentPolygon' = Append(mountCurrentPolygon, coords)

MapClick ==
  /\ isDrawing => clicks < MaxClicks
  /\ \E coords \in ClickPoints : handleMapClick(coords)
  /\ clicks' = IF isDrawing THEN clicks + 1 ELSE clicks
  /\ lastOp' = Op("mapClick")
  /\ UNCHANGED <<hookVars, probe, exported, dashboard, indexVars, timelineVars, sidebarVars,
                 isDrawing, newPolygonName, selectedPolygon, layers, e2e, moves>>

finishDrawingClosesRejected ==
  /\ isDrawing
  /\ Len(currentPolygon) < 3
  /\ isDrawing' = FALSE
  /\ currentPolygon' = <<>>
  /\ clicks' = 0
  /\ e2e' = "off"
  /\ lastOp' = Op("finishDrawing")
  /\ UNCHANGED <<hookVars, probe, exported, dashboard, indexVars, timelineVars, sidebarVars,
                 newPolygonName, selectedPolygon, layers, moves>>

finishDrawingOpenRing ==
  /\ isDrawing
  /\ Len(currentPolygon) >= 3
  /\ handlePolygonCreate(
       [id |-> <<"polygon", now>>,
        name |-> <<"Region", Len(polygons) + 1>>,
        coordinates |-> currentPolygon,
        dataSource |-> "temperature_2m",
        color |-> Purple,
        value |-> NoValue])
  /\ isDrawing' = FALSE
  /\ currentPolygon' = <<>>
  /\ newPolygonName' = NoName
  /\ repaint
  /\ clicks' = 0
  /\ e2e' = "off"
  /\ lastOp' = Op("finishDrawing")
  /\ UNCHANGED <<probe, exported, dashboard, timelineVars, sidebarVars, selectedPolygon, moves>>

finishDrawing ==
  /\ isDrawing
  /\ IF Len(currentPolygon) < 3
     THEN UNCHANGED <<hookVars, indexVars, mapVars>>
     ELSE /\ handlePolygonCreate(
               [id |-> <<"polygon", now>>,
                name |-> IF newPolygonName # NoName THEN newPolygonName
                         ELSE <<"Region", Len(polygons) + 1>>,
                coordinates |-> Append(currentPolygon, currentPolygon[1]),
                dataSource |-> "temperature_2m",
                color |-> Purple,
                value |-> NoValue])
          /\ isDrawing' = FALSE
          /\ currentPolygon' = <<>>
          /\ newPolygonName' = NoName
          /\ UNCHANGED selectedPolygon
  /\ repaint
  /\ clicks' = IF isDrawing' THEN clicks ELSE 0
  /\ e2e' = IF e2e = "drawing" /\ clicks = 4 THEN "finished" ELSE "off"
  /\ lastOp' = Op("finishDrawing")
  /\ UNCHANGED <<probe, exported, dashboard, timelineVars, sidebarVars, moves>>

cancelDrawing ==
  /\ isDrawing
  /\ isDrawing' = FALSE
  /\ currentPolygon' = <<>>
  /\ clicks' = 0
  /\ e2e' = "off"
  /\ lastOp' = Op("cancelDrawing")
  /\ UNCHANGED <<hookVars, probe, exported, dashboard, indexVars, timelineVars, sidebarVars,
                 newPolygonName, selectedPolygon, layers, moves>>

\* the name input, shown while a session is open
NameInputs == { NoName, <<"A">> }

setNewPolygonName ==
  /\ isDrawing
  /\ \E text \in NameInputs : text # newPolygonName /\ newPolygonName' = text
  /\ lastOp' = Op("typeName")
  /\ UNCHANGED <<hookVars, probe, exported, dashboard, indexVars, timelineVars, sidebarVars, userVars,
                 isDrawing, currentPolygon, selectedPolygon, layers>>

(***************************************************************************)
(* MapView: selection.  A click on a painted region runs the handler of    *)
(* the map surface and then the handler of the layer, which selects the    *)
(* polygon painted there.  Delete and the name editor are shown while a    *)
(* polygon is selected.                                                    *)
(***************************************************************************)
RegionClick ==
  /\ \E i \in 1..Len(layers) :
       /\ \E coords \in ClickPoints : handleMapClick(coords)
       /\ selectedPolygon' = layers[i].id
  /\ lastOp' = Op("regionClick")
  /\ UNCHANGED <<hookVars, probe, exported, dashboard, indexVars, timelineVars, sidebarVars, userVars,
                 isDrawing, newPolygonName, layers>>

handlePolygonDeleteKeepsSelection(id) ==
  /\ polygons' = SelectSeq(polygons, LAMBDA p : p.id # id)
  /\ UNCHANGED <<selectedPolygons, timeRange, isSingleTime>>

handlePolygonDelete(id) ==
  /\ polygons' = SelectSeq(polygons, LAMBDA p : p.id # id)
  /\ selectedPolygons' = SelectSeq(selectedPolygons, LAMBDA pid : pid # id)
  /\ UNCHANGED <<timeRange, isSingleTime>>

deleteSelectedPolygon ==
  /\ selectedPolygon # null
  /\ handlePolygonDelete(selectedPolygon)
  /\ selectedPolygon' = null
  /\ repaint
  /\ lastOp' = [op |-> "delete", id |-> selectedPolygon,
                removed |-> Len(polygons) - Len(polygons')]
  /\ UNCHANGED <<hookVars, probe, exported, dashboard, timelineVars, sidebarVars, userVars,
                 isDrawing, currentPolygon, newPolygonName>>

handlePolygonUpdate(updatedPolygon) ==
  /\ polygons' = [i \in 1..Len(polygons) |->
                    IF polygons[i].id = updatedPolygon.id THEN updatedPolygon
                    ELSE polygons[i]]
  /\ UNCHANGED <<selectedPolygons, timeRange, isSingleTime>>

RenameInputs == { <<"B">> }

renamePolygon(id, newName) ==
  LET found == {i \in 1..Len(polygons) : polygons[i].id = id} IN
  IF found # {}
  THEN handlePolygonUpdate(
         [polygons[CHOOSE i \in found : \A j \in found : i <= j]
            EXCEPT !.name = newName])
  ELSE UNCHANGED indexVars

RenamePolygon ==
  /\ selectedPolygon # null
  /\ \E newName \in RenameInputs : renamePolygon(selectedPolygon, newName)
  /\ repaint
  /\ lastOp' = Op("rename")
  /\ UNCHANGED <<hookVars, probe, exported, dashboard, timelineVars, mapVars, sidebarVars, userVars>>

(***************************************************************************)
(* Import of a JSON file (MobileControls): the parsed object is handed to  *)
(* Index, which takes over polygons, selectedPolygons and timeRange, each  *)
(* as it is, if the file has it.                                           *)
(***************************************************************************)
importedPolygon(n, coordinates) ==
  [id |-> <<"polygon", n>>, name |-> <<"Imported", n>>,
   coordinates |-> coordinates, dataSource |-> "temperature_2m",
   color |-> Purple, value |-> NoValue]

ImportFiles ==
  { [has |-> {"polygons", "selectedPolygons"},
     polygons |-> <<importedPolygon(1, DemoCoordinates)>>,
     selectedPolygons |-> << <<"polygon", 1>> >>,
     timeRange |-> [start |-> 0, end |-> 0]],
    [has |-> {"polygons"},
     polygons |-> <<importedPolygon(1, DemoCoordinates),
                    importedPolygon(2, <<DemoCoordinates[1], DemoCoordinates[2]>>)>>,
     selectedPolygons |-> <<>>,
     timeRange |-> [start |-> 0, end |-> 0]],
    [has |-> {"timeRange"},
     polygons |-> <<>>,
     selectedPolygons |-> <<>>,
     timeRange |-> [start |-> 0, end |-> maxHours]] }

\* file.has holds the names of the fields the file has; the other fields of
\* the record are not read
handleDataImport(file) ==
  /\ polygons' = IF "polygons" \in file.has THEN file.polygons ELSE polygons
  /\ selectedPolygons' = IF "selectedPolygons" \in file.has
                         THEN file.selectedPolygons ELSE selectedPolygons
  /\ timeRange' = IF "timeRange" \in file.has THEN file.timeRange ELSE timeRange
  /\ UNCHANGED isSingleTime

ImportData ==
  /\ \E file \in ImportFiles :
       /\ handleDataImport(file)
       /\ IF "timeRange" \in file.has THEN metricsEffect ELSE UNCHANGED dashboard
  /\ repaint
  /\ lastOp' = Op("import")
  /\ UNCHANGED <<hookVars, probe, exported, timelineVars, mapVars, sidebarVars, userVars>>

(***************************************************************************)
(* Export (MobileControls): a document with a timestamp, the settings of   *)
(* the panel and the size of the cache is downloaded, and Index's callback *)
(* logs an object with polygons, selectedPolygons and timeRange to the     *)
(* console.  ImportExported is the import of the document downloaded last. *)
(***************************************************************************)
exportDocument ==
  [has |-> {"timestamp", "settings", "cache"},
   polygons |-> <<>>, selectedPolygons |-> <<>>, timeRange |-> NoWindow]

handleDataExport ==
  /\ exported' = [made |-> TRUE, file |-> exportDocument,
                  logged |-> [polygons |-> polygons,
                              selectedPolygons |-> selectedPolygons,
                              timeRange |-> timeRange]]
  /\ lastOp' = Op("export")
  /\ UNCHANGED <<hookVars, probe, dashboard, indexVars, timelineVars, mapVars,
                 sidebarVars, userVars, layers>>

ImportExported ==
  /\ exported.made
  /\ handleDataImport(exported.file)
  /\ IF "timeRange" \in exported.file.has THEN metricsEffect ELSE UNCHANGED dashboard
  /\ repaint
  /\ lastOp' = Op("importExported")
  /\ UNCHANGED <<hookVars, probe, exported, timelineVars, mapVars, sidebarVars,
                 userVars>>

(***************************************************************************)
(* DataSourceSidebar: editing a threshold of an active source, and         *)
(* choosing another data field for it, which is passed on to the selected  *)
(* polygons.                                                               *)
(***************************************************************************)
ThresholdEdits ==
  { [level |-> "low", field |-> "value", value |-> -500] }

updateThreshold(index, level, field, value) ==
  /\ thresholds' =
       [thresholds EXCEPT ![activeDataSources[index].id][level][field] = value]
  /\ UNCHANGED <<activeDataSources, catalogIsActive, catalogAt>>

UpdateThreshold ==
  /\ \E index \in 1..Len(activeDataSources), edit \in ThresholdEdits :
       updateThreshold(index, edit.level, edit.field, edit.value)
  /\ lastOp' = Op("updateThreshold")
  /\ UNCHANGED <<hookVars, probe, exported, dashboard, indexVars, timelineVars, mapVars, userVars,
                 layers>>

RECURSIVE changeSelected(_, _, _)
changeSelected(prevPolygons, ids, dataSource) ==
  IF ids = <<>> THEN prevPolygons
  ELSE changeSelected(handleDataSourceChange(prevPolygons, Head(ids), dataSource),
                      Tail(ids), dataSource)

updateDataSource(index, updatedSource) ==
  /\ activeDataSources' = [activeDataSources EXCEPT ![index] = updatedSource]
  /\ polygons' = changeSelected(polygons, selectedPolygons, updatedSource)
  /\ catalogAt' = IF catalogAt = index THEN 0 ELSE catalogAt
  /\ UNCHANGED <<thresholds, catalogIsActive>>
  /\ UNCHANGED <<selectedPolygons, timeRange, isSingleTime>>

SelectDataField ==
  /\ \E index \in 1..Len(activeDataSources), i \in 1..Len(availableDataSources) :
       /\ availableDataSources[i].field # activeDataSources[index].field
       /\ updateDataSource(index,
            [id |-> availableDataSources[i].id,
             field |-> availableDataSources[i].field,
             isActive |-> activeDataSources[index].isActive])
  /\ repaint
  /\ lastOp' = Op("selectDataField")
  /\ UNCHANGED <<hookVars, probe, exported, dashboard, timelineVars, mapVars, userVars>>

\* Add Data Source, shown while fewer than maxActive sources are active: a
\* copy of the first catalogue entry whose id is not active, with isActive
\* true (the copy shares the entry's thresholds object).
addDataSource ==
  /\ Len(activeDataSources) < maxActive
  /\ LET inactive ==
           {i \in 1..Len(availableDataSources) :
              \A j \in 1..Len(activeDataSources) :
                 activeDataSources[j].id # availableDataSources[i].id}
         first == CHOOSE i \in inactive : \A k \in inactive : i <= k
     IN  IF inactive # {}
         THEN activeDataSources' =
                Append(activeDataSources,
                       [id |-> availableDataSources[first].id,
                        field |-> availableDataSources[first].field,
                        isActive |-> TRUE])
         ELSE UNCHANGED activeDataSources
  /\ UNCHANGED <<thresholds, catalogIsActive, catalogAt>>
  /\ lastOp' = Op("addDataSource")
  /\ UNCHANGED <<hookVars, probe, exported, dashboard, indexVars, timelineVars, mapVars, userVars,
                 layers>>

removeDataSource(index) ==
  /\ activeDataSources' =
       [i \in 1..(Len(activeDataSources) - 1) |->
          IF i < index THEN activeDataSources[i] ELSE activeDataSources[i + 1]]
  /\ catalogAt' = IF catalogAt = index THEN 0
                  ELSE IF catalogAt > index THEN catalogAt - 1
                  ELSE catalogAt
  /\ UNCHANGED <<thresholds, catalogIsActive>>

RemoveDataSourceOfAny ==
  /\ \E index \in 1..Len(activeDataSources) : removeDataSource(index)
  /\ lastOp' = Op("removeDataSource")
  /\ UNCHANGED <<hookVars, probe, exported, dashboard, indexVars, timelineVars, mapVars, userVars,
                 layers>>

\* the remove button of a source, shown while more than one is active
RemoveDataSource ==
  /\ Len(activeDataSources) > 1
  /\ \E index \in 1..Len(activeDataSources) : removeDataSource(index)
  /\ lastOp' = Op("removeDataSource")
  /\ UNCHANGED <<hookVars, probe, exported, dashboard, indexVars, timelineVars, mapVars, userVars,
                 layers>>

\* the flag is flipped in the object the working set holds, which for the
\* uncopied initial source is the catalogue entry
toggleDataSourceVisibility(index) ==
  /\ activeDataSources' =
       [activeDataSources EXCEPT ![index].isActive = ~@]
  /\ catalogIsActive' =
       IF catalogAt = index
       THEN [catalogIsActive EXCEPT ![availableDataSources[1].id] = ~@]
       ELSE catalogIsActive
  /\ UNCHANGED <<thresholds, catalogAt>>

ToggleDataSourceVisibility ==
  /\ \E index \in 1..Len(activeDataSources) : toggleDataSourceVisibility(index)
  /\ lastOp' = Op("toggleVisibility")
  /\ UNCHANGED <<hookVars, probe, exported, dashboard, indexVars, timelineVars, mapVars, userVars,
                 layers>>

(***************************************************************************)
(* The hook as the page uses it.                                           *)
(***************************************************************************)
DashResponses ==
  { r \in Responses : r.kind \in {"ok", "http_error"} /\ r.payload = PayloadA }

DashFetchResume ==
  /\ \E call \in inflight : \E resp \in DashResponses : fetchResume(call, resp)
  /\ UNCHANGED <<probe, exported, dashboard, indexVars, timelineVars, mapVars, sidebarVars, userVars,
                 layers, lastOp>>

DashAdvance ==
  /\ advances < MaxAdvances
  /\ now' = now + 1
  /\ advances' = advances + 1
  /\ UNCHANGED <<storage, storageFails, mounted, cache, data, loading, error,
                 inflight, nreq, last>>
  /\ UNCHANGED <<probe, pageVars>>

CallGetValueAtTime ==
  \E field \in ProbeFields, t \in Hours :
    /\ probe' = [NoProbe EXCEPT !.op = "getValueAtTime", !.field = field,
                   !.start = t, !.end = t,
                   !.result = getValueAtTime(data, DemoCoordinates, field, t)]
    /\ UNCHANGED <<hookVars, pageVars>>

CallGetPolygonAverage ==
  \E field \in ProbeFields, s \in Hours, e \in Hours :
    /\ s <= e
    /\ probe' = [NoProbe EXCEPT !.op = "getPolygonAverage", !.field = field,
                   !.start = s, !.end = e,
                   !.result = getPolygonAverage(data, DemoCoordinates, field, s, e)]
    /\ UNCHANGED <<hookVars, pageVars>>

CallColorRules ==
  \E v \in ProbeValues :
    /\ probe' = [NoProbe EXCEPT !.op = "colorRules", !.arg = v,
                   !.color = colorRules(v)]
    /\ UNCHANGED <<hookVars, pageVars>>

\* updatePolygonColors applied to one polygon with the series as it stands:
\* probe keeps the value and the colour the polygon is given
CallUpdatePolygonColors ==
  \E single \in BOOLEAN, s \in Hours, e \in Hours :
    /\ s <= e
    /\ single => s = e
    /\ LET after == updatePolygonColors(<<importedPolygon(1, DemoCoordinates)>>,
                                        single, data, s, e)
       IN  probe' = [NoProbe EXCEPT !.op = "updatePolygonColors",
                       !.start = s, !.end = e,
                       !.result = Hundredths(after[1].value[1]),
                       !.color = after[1].color]
    /\ UNCHANGED <<hookVars, pageVars>>

InitEngine ==
  /\ now = Epoch
  /\ storage = saveCache(EmptyMap)
  /\ storageFails = FALSE
  /\ mounted = TRUE
  /\ cache = EmptyMap
  /\ data \in EngineSeries
  /\ loading = FALSE
  /\ error = NoError
  /\ inflight = {}
  /\ nreq = 0
  /\ advances = 0
  /\ last = [op |-> "none", key |-> NoKey, id |-> 0]
  /\ probe = NoProbe
  /\ InitPage

NextEngine ==
  \/ CallGetValueAtTime
  \/ CallGetPolygonAverage
  \/ CallColorRules
  \/ CallUpdatePolygonColors

SpecEngine == InitEngine /\ [][NextEngine]_vars

(***************************************************************************)
(* The specifications.                                                     *)
(***************************************************************************)
NextCache ==
  \/ Mount /\ UNCHANGED <<probe, pageVars>>
  \/ Advance /\ UNCHANGED <<probe, pageVars>>
  \/ FetchCall /\ UNCHANGED <<probe, pageVars>>
  \/ FetchResume /\ UNCHANGED <<probe, pageVars>>
  \/ clearCache /\ UNCHANGED <<probe, pageVars>>

Init == InitHook /\ storageFails = FALSE /\ probe = NoProbe /\ InitPage

\* the hook in a browser whose localStorage can throw
InitFaults == InitHook /\ storageFails = TRUE /\ probe = NoProbe /\ InitPage

SpecFaults == InitFaults /\ [][NextCache]_vars

\* the map, the timeline and the store of polygons
NextDash ==
  \/ startDrawing
  \/ MapClick
  \/ finishDrawing
  \/ cancelDrawing
  \/ setNewPolygonName
  \/ SliderChange
  \/ toggleRangeMode
  \/ addDemoPolygon
  \/ DashFetchResume
  \/ DashAdvance

SpecDash == InitDash /\ [][NextDash]_vars

(***************************************************************************)
(* The handlers of the drawing session on every state of the session:     *)
(* the pending points, which handleMapClick is written to collect, are     *)
(* taken as given.                                                         *)
(***************************************************************************)
PendingPoints == UNION { [1..n -> ClickPoints] : n \in 0..MaxClicks }

InitSession ==
  /\ InitMounted
  /\ InitOutsideSession
  /\ isDrawing \in BOOLEAN
  /\ currentPolygon \in PendingPoints
  /\ ~isDrawing => currentPolygon = <<>>
  /\ newPolygonName \in NameInputs
  /\ clicks = Len(currentPolygon)
  /\ e2e = "off"

NextSession ==
  \/ startDrawing
  \/ MapClick
  \/ setNewPolygonName
  \/ finishDrawing
  \/ cancelDrawing
  \/ DashFetchResume

SpecSession == InitSession /\ [][NextSession]_vars

\* the store of polygons, filled by import: selection on the map, delete,
\* rename, recolouring and change of data source
NextStore ==
  \/ ImportData
  \/ RegionClick
  \/ MapClick
  \/ deleteSelectedPolygon
  \/ RenamePolygon
  \/ toggleRangeMode
  \/ SelectDataField

SpecStore == InitDash /\ [][NextStore]_vars

\* the timeline on its own: slider, presets, mode, skips and playback
NextTimeline ==
  \/ SliderDrag
  \/ selectPreset
  \/ toggleRangeMode
  \/ handlePlayPause
  \/ handleSkipBack
  \/ handleSkipForward
  \/ playbackTick

SpecTimeline == InitDash /\ [][NextTimeline]_vars

\* playback left alone: the window is anywhere within MaxMoves hours of the
\* end of the scale, the user presses Play and does nothing more, and the
\* interval keeps firing while isPlaying
PlaybackStarts == (maxHours - MaxMoves)..maxHours

InitPlayback ==
  /\ InitMounted
  /\ polygons = <<>>
  /\ selectedPolygons = <<>>
  /\ isRangeMode \in BOOLEAN
  /\ \E a \in SliderStops \cup PlaybackStarts, b \in PlaybackStarts :
       a <= b /\ rangeValue = <<a, b>>
  /\ \E h \in PlaybackStarts : currentValue = <<h>>
  /\ timeRange = IF isRangeMode
                 THEN [start |-> rangeValue[1], end |-> rangeValue[2]]
                 ELSE [start |-> currentValue[1], end |-> currentValue[1]]
  /\ isSingleTime = ~isRangeMode
  /\ activeDataSources = <<initialActive>>
  /\ thresholds = initialThresholds
  /\ catalogIsActive = initialFlags
  /\ catalogAt = 1
  /\ isPlaying = FALSE
  /\ selectedPolygon = null
  /\ layers = <<>>
  /\ lastOp = Op("none")
  /\ exported = NoExport
  /\ dashboard = initialState
  /\ moves = 0
  /\ isDrawing = FALSE
  /\ currentPolygon = <<>>
  /\ newPolygonName = NoName
  /\ clicks = 0
  /\ e2e = "off"

startPlayback == lastOp.op = "none" /\ handlePlayPause

NextPlayback ==
  \/ startPlayback
  \/ playbackTick

SpecPlayback ==
  InitPlayback /\ [][NextPlayback]_vars /\ WF_vars(playbackTick)

\* export and import, with a store that changes in between
NextTransfer ==
  \/ handleDataExport
  \/ ImportExported
  \/ ImportData
  \/ RegionClick
  \/ deleteSelectedPolygon

SpecTransfer == InitDash /\ [][NextTransfer]_vars

\* the metrics panel beside a store that changes and a timeline that moves
NextMetrics ==
  \/ addTestPolygon
  \/ refreshData
  \/ refreshTimer
  \/ selectPreset
  \/ ImportData
  \/ RegionClick
  \/ deleteSelectedPolygon

SpecMetrics == InitDash /\ [][NextMetrics]_vars

\* the metrics panel on its own; a timeout that is pending fires
NextRefresh ==
  \/ addTestPolygon
  \/ refreshData
  \/ refreshTimer

SpecRefresh == InitDash /\ [][NextRefresh]_vars /\ WF_vars(refreshTimer)

\* the sidebar on its own
NextSidebar ==
  \/ addDataSource
  \/ RemoveDataSource
  \/ ToggleDataSourceVisibility
  \/ UpdateThreshold
  \/ SelectDataField

SpecSidebar == InitDash /\ [][NextSidebar]_vars

\* the sidebar, the timeline and the store of polygons
NextSources ==
  \/ UpdateThreshold
  \/ SelectDataField
  \/ SliderChange
  \/ toggleRangeMode
  \/ addDemoPolygon
  \/ DashFetchResume

SpecSources == InitDash /\ [][NextSources]_vars

SpecCache == Init /\ [][NextCache]_vars

(***************************************************************************)
(* Properties of the cache and fetch service.                              *)
(***************************************************************************)

\* C1: a fetch call whose key has an entry younger than CACHE_DURATION makes
\* exactly that entry's series current and issues no request; and the call
\* that immediately follows a successful, stored fetch with the same
\* parameters leaves the series as stored and issues no request.
C1_CacheHitServesStored ==
  [][ \A p \in ParamsSet :
        LET k == generateCacheKey(p) IN
        /\ ( /\ fetchWeatherData(p)
             /\ k \in DOMAIN cache
             /\ now - cache[k].timestamp < CACHE_DURATION )
           => /\ data' = cache[k].data
              /\ nreq' = nreq
              /\ inflight' = inflight
              /\ cache' = cache
        /\ ( /\ fetchWeatherData(p)
             /\ last.op = "stored"
             /\ last.key \in DOMAIN cache
             /\ cache[last.key].params = p )
           => /\ data' = data
              /\ data' = cache[last.key].data
              /\ nreq' = nreq
              /\ inflight' = inflight ]_vars

C1_Witness ==
  /\ last.op = "hit"
  /\ nreq >= 1
  /\ last.key \in DOMAIN cache
  /\ cache[last.key].timestamp >= Epoch
  /\ data = cache[last.key].data
  /\ data # <<>>

\* C2: an entry whose age is CACHE_DURATION or more is never served: the
\* mount effect puts no such persisted entry into the cache, and a fetch call
\* whose key has such an entry in memory issues a request and leaves the
\* current series alone.
C2_ExpiredNeverServed ==
  [][ /\ Mount =>
           /\ \A k \in DOMAIN cache' : now - cache'[k].timestamp < CACHE_DURATION
           /\ \A k \in DOMAIN storage.obj :
                (storage.present /\ now - storage.obj[k].timestamp < CACHE_DURATION)
                  => (k \in DOMAIN cache' /\ cache'[k] = storage.obj[k])
      /\ \A p \in ParamsSet :
           LET k == generateCacheKey(p) IN
           ( /\ fetchWeatherData(p)
             /\ k \in DOMAIN cache
             /\ now - cache[k].timestamp >= CACHE_DURATION )
           => /\ nreq' = nreq + 1
              /\ \E call \in inflight' \ inflight : call.key = k /\ call.params = p
              /\ data' = data ]_vars

C2_Witness ==
  /\ last.op = "request"
  /\ last.key \in DOMAIN cache
  /\ now - cache[last.key].timestamp >= CACHE_DURATION
  /\ \E call \in inflight : call.id = last.id /\ call.key = last.key

\* C3: when the request of a fetch call succeeds, the cache maps the call's
\* key to the delivered series stamped with the time of completion, and the
\* durable item is rewritten to hold the whole cache.
C3_InsertAndPersist ==
  [][ \A call \in inflight : \A resp \in Responses :
        (resp.kind = "ok" /\ fetchResume(call, resp))
        => /\ call.key \in DOMAIN cache'
           /\ cache'[call.key] = [data |-> transform(resp.payload),
                                  timestamp |-> now', params |-> call.params]
           /\ data' = transform(resp.payload)
           /\ storage'.present
           /\ storage'.obj = cache' ]_vars

C3_Witness ==
  /\ last.op = "stored"
  /\ now > Epoch
  /\ Cardinality(DOMAIN cache) >= 2
  /\ cache[last.key].timestamp = now
  /\ storage.obj = cache

sameQuery(p, q) ==
  /\ p.latitude = q.latitude
  /\ p.longitude = q.longitude
  /\ p.startDate = q.startDate
  /\ p.endDate = q.endDate
  /\ Len(p.hourly) = Len(q.hourly)
  /\ {p.hourly[i] : i \in 1..Len(p.hourly)} = {q.hourly[i] : i \in 1..Len(q.hourly)}

\* C26: two queries with the same latitude, longitude and dates whose field
\* lists hold the same fields in any order have the same key, so a fetch
\* call for one of them while the cache holds a fresh entry stored for the
\* other is a cache hit and issues no request.
C26_KeyIgnoresFieldOrder ==
  [][ \A p \in ParamsSet : \A q \in ParamsSet :
        LET k == generateCacheKey(p) IN
        ( /\ sameQuery(p, q)
          /\ k \in DOMAIN cache
          /\ cache[k].params = p
          /\ isFresh(cache[k].timestamp, now)
          /\ fetchWeatherData(q) )
        => /\ generateCacheKey(q) = k
           /\ data' = cache[k].data
           /\ nreq' = nreq
           /\ inflight' = inflight ]_vars

\* C27: clearCache leaves the cache without entries and the durable item
\* without entries, and the cache stays so until a fetch puts its own key
\* in: the step after a clearing leaves no key in the cache but the key of
\* the fetch it stored, and a fetch call right after a clearing issues a
\* request.
C27_ClearEmptiesCache ==
  [][ /\ clearCache => (cache' = EmptyMap /\ storage'.obj = EmptyMap)
      /\ last.op = "clear"
           => /\ \A k \in DOMAIN cache' : last'.op = "stored" /\ last'.key = k
              /\ (\E p \in ParamsSet : fetchWeatherData(p))
                   => last'.op = "request" ]_vars

\* C32: the answer to a fetch call is applied when it arrives, whichever
\* call it answers: after the completion of a call, also of one that was
\* issued before another call that is still in flight or has already
\* completed, the current series is the series of that answer (the
\* transformed payload, or a generated series when the request failed).
C32_LastResponseWins ==
  [][ \A call \in inflight : \A resp \in Responses :
        fetchResume(call, resp)
        => /\ resp.kind = "ok" => data' = transform(resp.payload)
           /\ resp.kind # "ok" => data' \in generateMockData(call.params)
           /\ call \notin inflight' ]_vars

\* the call issued first completes last, after the second has completed
\* with another series
C32_Witness ==
  /\ nreq = 2
  /\ inflight = {}
  /\ last.op = "stored"
  /\ last.id = 1
  /\ data = transform(PayloadB)
  /\ \E k \in DOMAIN cache : cache[k].data = transform(PayloadA)

\* C33: when a fetch call succeeds, every entry that another call inserted
\* while this one was in flight (an entry of the cache that the call does
\* not hold in the cache of its render, under another key) is still in the
\* cache and in the durable item afterwards.
C33_InsertionsDoNotDropEachOther ==
  [][ \A call \in inflight : \A resp \in Responses :
        (fetchResume(call, resp) /\ resp.kind = "ok")
        => \A k \in DOMAIN cache \ (DOMAIN call.cache \cup {call.key}) :
             /\ k \in DOMAIN cache' /\ cache'[k] = cache[k]
             /\ k \in DOMAIN storage'.obj ]_vars

\* C34: when a fetch call completes and finds the cache emptied by a
\* clearCache that ran while it was in flight, the cache and the durable item
\* hold afterwards at most the entry of the call's own key.
C34_ClearedEntriesStayGone ==
  [][ \A call \in inflight : \A resp \in Responses :
        (fetchResume(call, resp) /\ cache = EmptyMap)
        => /\ DOMAIN cache' \subseteq {call.key}
           /\ DOMAIN storage'.obj \subseteq {call.key} ]_vars

\* C4: when the request of a fetch call fails, nothing is retried, the cache
\* and the durable item stay as they were, a generated series becomes
\* current, the error is recorded, and the hook is not left loading.
C4_FailureFallsBack ==
  [][ \A call \in inflight : \A resp \in Responses :
        (resp.kind # "ok" /\ fetchResume(call, resp))
        => /\ cache' = cache
           /\ storage' = storage
           /\ nreq' = nreq
           /\ inflight' = inflight \ {call}
           /\ data' \in generateMockData(call.params)
           /\ error' # NoError
           /\ loading' = FALSE
           /\ mounted' ]_vars

C4_Witness ==
  /\ last.op = "fallback"
  /\ error # NoError
  /\ cache # EmptyMap
  /\ last.key \notin DOMAIN cache
  /\ \E p \in ParamsSet : data \in generateMockData(p)
  /\ nreq = MaxRequests

(***************************************************************************)
(* What the specification asks of a recolouring: the sample or the mean    *)
(* of the window, and the colour of the first threshold that holds.        *)
(***************************************************************************)
satisfies(v, operator, value) ==
  CASE operator = "<"  -> NumLt(v, Hundredths(value))
    [] operator = "<=" -> ~NumLt(Hundredths(value), v)
    [] operator = ">"  -> NumLt(Hundredths(value), v)
    [] operator = ">=" -> ~NumLt(v, Hundredths(value))
    [] operator = "="  -> NumEq(v, Hundredths(value))

firstMatch(ts, v) ==
  LET hits == {i \in 1..Len(Levels) :
                 satisfies(v, ts[Levels[i]].operator,
                           ts[Levels[i]].value)}
  IN  IF hits = {} THEN Purple
      ELSE ts[Levels[CHOOSE i \in hits : \A j \in hits : i <= j]].color

\* the sample of a field at an hour, 0 beyond the series
sampleAt(d, field, hour) ==
  IF hour >= 0 /\ hour < Len(d) THEN numberOrZero(d[hour + 1], field) ELSE 0

(***************************************************************************)
(* Properties of the page.                                                 *)
(***************************************************************************)
\* C5: from an empty store, a drawing session of four clicks on the map that
\* is finished, followed, once no request is in flight, by setting the
\* window to the instant hour 0, leaves exactly one polygon, whose value is
\* sample 0 of the current series and whose colour is that of the threshold
\* bucket holding that sample.
C5_DrawFinishInstantZero ==
  e2e = "done" =>
    /\ Len(polygons) = 1
    /\ polygons[1].value = <<sampleAt(data, "temperature_2m", 0)>>
    /\ polygons[1].color =
         firstMatch(availableDataSources[1].thresholds,
                    Hundredths(sampleAt(data, "temperature_2m", 0)))

reflects(polygon) ==
  LET v == IF isSingleTime
           THEN getValueAtTime(data, polygon.coordinates, polygon.dataSource,
                               timeRange.start)
           ELSE getPolygonAverage(data, polygon.coordinates, polygon.dataSource,
                                  timeRange.start, timeRange.end)
  IN  /\ polygon.value = <<roundTenths(v)>>
      /\ polygon.color = firstMatch(thresholds[polygon.dataSource], v)

C11_FinishRejectedBelowThree ==
  [][ (finishDrawing /\ Len(currentPolygon) < 3)
        => /\ UNCHANGED <<polygons, selectedPolygons, layers>>
           /\ UNCHANGED <<cache, storage, data, loading, error, inflight, nreq>>
           /\ isDrawing'
           /\ UNCHANGED <<currentPolygon, newPolygonName>> ]_vars

C11_Witness ==
  /\ lastOp.op = "finishDrawing"
  /\ isDrawing
  /\ Len(currentPolygon) = 2
  /\ polygons = <<>>
  /\ nreq = 0

\* C12: finishDrawing with n >= 3 pending points appends exactly one polygon
\* whose ring is the n points in click order followed by the first point,
\* ends the session with no pending points, and calls fetchWeatherData once,
\* for the mean of the ring's vertices and the dates of hour 0 and hour 720.
C12_FinishCreatesClosedRing ==
  [][ (finishDrawing /\ Len(currentPolygon) >= 3)
        => LET n == Len(currentPolygon)
               p == polygons'[Len(polygons')]
               params == centroidParams(p.coordinates)
           IN  /\ Len(polygons') = Len(polygons) + 1
               /\ SubSeq(polygons', 1, Len(polygons)) = polygons
               /\ Len(p.coordinates) = n + 1
               /\ SubSeq(p.coordinates, 1, n) = currentPolygon
               /\ p.coordinates[n + 1] = currentPolygon[1]
               /\ ~isDrawing'
               /\ currentPolygon' = <<>>
               /\ params.latitude = <<centroid(p.coordinates)[2], n + 1>>
               /\ params.longitude = <<centroid(p.coordinates)[1], n + 1>>
               /\ params.startDate = getDateFromHour(0)
               /\ params.endDate = getDateFromHour(maxHours)
               /\ last'.key = generateCacheKey(params)
               /\ \/ /\ last'.op = "request"
                     /\ nreq' = nreq + 1
                     /\ \E call \in inflight' :
                          /\ inflight' = inflight \cup {call}
                          /\ call \notin inflight
                          /\ call.params = params
                  \/ /\ last'.op = "hit"
                     /\ UNCHANGED <<nreq, inflight>> ]_vars

C12_Witness ==
  /\ lastOp.op = "finishDrawing"
  /\ ~isDrawing
  /\ currentPolygon = <<>>
  /\ Len(polygons) = 1
  /\ Len(polygons[1].coordinates) = 4
  /\ polygons[1].coordinates[4] = polygons[1].coordinates[1]
  /\ polygons[1].coordinates[1] # polygons[1].coordinates[2]
  /\ Cardinality(inflight) = 1
  /\ nreq = 1

isPrefix(a, b) == Len(a) <= Len(b) /\ SubSeq(b, 1, Len(a)) = a

\* C13: a click on the map surface during a session appends the clicked
\* point to the pending points; a click outside a session leaves the pending
\* points and the polygons as they are.
C13_ClickAppendsPoint ==
  [][ MapClick
        => IF isDrawing
           THEN /\ Len(currentPolygon') = Len(currentPolygon) + 1
                /\ isPrefix(currentPolygon, currentPolygon')
                /\ currentPolygon'[Len(currentPolygon')] \in ClickPoints
           ELSE UNCHANGED <<currentPolygon, polygons>> ]_vars

\* C14: while a session is open startDrawing cannot be invoked, and nothing
\* but typing changes the name and nothing empties the pending points as
\* long as the session stays open; a session that opens starts, by
\* startDrawing, with no pending points.
C14_OneSessionAtATime ==
  [][ /\ isDrawing => ~ENABLED startDrawing
      /\ (isDrawing /\ isDrawing')
           => /\ isPrefix(currentPolygon, currentPolygon')
              /\ newPolygonName' # newPolygonName => setNewPolygonName
      /\ (~isDrawing /\ isDrawing')
           => /\ startDrawing
              /\ currentPolygon' = <<>> ]_vars

C14_Witness ==
  /\ isDrawing
  /\ lastOp.op = "startDrawing"
  /\ currentPolygon = <<>>
  /\ ~ENABLED startDrawing
  /\ ENABLED cancelDrawing

\* C15: cancelDrawing ends the session and discards it: no session, no
\* pending points, no name typed, no polygon created; the session opened
\* next starts with no pending points and no name.
C15_CancelDiscardsSession ==
  [][ /\ cancelDrawing
           => /\ ~isDrawing'
              /\ currentPolygon' = <<>>
              /\ newPolygonName' = NoName
              /\ UNCHANGED <<polygons, selectedPolygons, inflight, nreq>>
      /\ startDrawing
           => /\ currentPolygon' = <<>>
              /\ newPolygonName' = NoName ]_vars

(***************************************************************************)
(* Properties of the store of polygons and of the selection.               *)
(***************************************************************************)
withoutId(ps, id) == SelectSeq(ps, LAMBDA p : p.id # id)

\* C16: deleting the polygon of an id removes the polygons of that id from
\* the store and the id from the selected ids, and leaves the rest of the
\* state; for an id that is in neither (as on a second delete of the same
\* id) nothing changes.
C16_DeleteIsIdempotent ==
  [][ deleteSelectedPolygon
        => LET id == selectedPolygon IN
           /\ polygons' = withoutId(polygons, id)
           /\ selectedPolygons' = SelectSeq(selectedPolygons, LAMBDA pid : pid # id)
           /\ withoutId(polygons', id) = polygons'
           /\ ((\A i \in 1..Len(polygons) : polygons[i].id # id)
                 /\ (\A i \in 1..Len(selectedPolygons) : selectedPolygons[i] # id))
                => UNCHANGED <<polygons, selectedPolygons>>
           /\ UNCHANGED <<hookVars, timeRange, isSingleTime, timelineVars,
                          sidebarVars, isDrawing, currentPolygon, newPolygonName>>
    ]_vars

C16_Witness ==
  /\ lastOp.op = "delete"
  /\ lastOp.removed = 0
  /\ polygons # <<>>
  /\ \A i \in 1..Len(polygons) : polygons[i].id # lastOp.id
  /\ \E i \in 1..Len(layers) : layers[i].id = lastOp.id

\* C17: a click on a painted region makes its polygon the selected one, and
\* a click on the map surface outside a drawing session clears the
\* selection.
C17_ClickSelectsAndClears ==
  [][ /\ RegionClick
           => \E i \in 1..Len(layers) : selectedPolygon' = layers[i].id
      /\ (MapClick /\ ~isDrawing) => selectedPolygon' = null ]_vars

\* C18: every polygon of the store has a ring of at least 4 vertices whose
\* first and last vertices are equal.
C18_RingsAreClosed ==
  \A i \in 1..Len(polygons) :
    LET ring == polygons[i].coordinates IN
    /\ Len(ring) >= 4
    /\ ring[1] = ring[Len(ring)]

(***************************************************************************)
(* Properties of the timeline.                                             *)
(***************************************************************************)
inScale(start, end) == 0 <= start /\ start <= end /\ end <= maxHours

\* C19: whatever the slider, the presets, the mode button, the skip buttons
\* and playback did, the window lies on the scale: 0 <= start <= end <= 720,
\* for the range, for the single hour and for the window reported to the
\* page.
C19_WindowOnScale ==
  /\ inScale(rangeValue[1], rangeValue[2])
  /\ inScale(currentValue[1], currentValue[1])
  /\ inScale(timeRange.start, timeRange.end)
  /\ timeRange = IF isRangeMode
                 THEN [start |-> rangeValue[1], end |-> rangeValue[2]]
                 ELSE [start |-> currentValue[1], end |-> currentValue[1]]

\* a skip forward ended at the upper end of the scale, and a skip back at the
\* lower end
C19_Witness ==
  \/ lastOp.op = "skipForward" /\ isRangeMode
       /\ rangeValue = <<maxHours - 24, maxHours>>
  \/ lastOp.op = "skipBack" /\ ~isRangeMode /\ currentValue = <<0>>

\* C20: a playback tick that leaves playback running moves start and end up
\* by exactly 1 in range mode (the width stays) or the hour up by exactly 1
\* in instant mode; a tick that stops playback moves nothing; and after a
\* tick no edge is beyond 720.
C20_TickAdvancesByOne ==
  [][ playbackTick
        => /\ isPlaying
           /\ isPlaying'
                => IF isRangeMode
                   THEN /\ rangeValue' = <<rangeValue[1] + 1, rangeValue[2] + 1>>
                        /\ rangeValue'[2] - rangeValue'[1]
                             = rangeValue[2] - rangeValue[1]
                        /\ UNCHANGED currentValue
                   ELSE /\ currentValue' = <<currentValue[1] + 1>>
                        /\ UNCHANGED rangeValue
           /\ ~isPlaying' => UNCHANGED <<rangeValue, currentValue>>
           /\ rangeValue'[2] <= maxHours
           /\ currentValue'[1] <= maxHours
           /\ UNCHANGED isRangeMode
    ]_vars

\* playback ran up to the hour before the end of the scale and the next
\* tick stopped it
C20_Witness ==
  /\ lastOp.op = "tick"
  /\ ~isPlaying
  /\ moves >= 2
  /\ IF isRangeMode THEN rangeValue[2] = maxHours - 1
     ELSE currentValue[1] = maxHours - 1

skipped(by) ==
  IF isRangeMode
  THEN /\ inScale(rangeValue'[1], rangeValue'[2])
       /\ inScale(rangeValue[1] + by, rangeValue[2] + by)
            => rangeValue' = <<rangeValue[1] + by, rangeValue[2] + by>>
       /\ UNCHANGED currentValue
  ELSE /\ currentValue' = <<clamp(currentValue[1] + by, 0, maxHours)>>
       /\ UNCHANGED rangeValue

\* C22: a skip never leaves the scale [0, 720]; in range mode, if the window
\* moved by 24 hours in the direction of the skip is still on the scale, the
\* skip gives exactly that window (so the width is kept); in instant mode
\* the hour moves by 24, clamped into [0, 720].
C22_SkipShiftsByADay ==
  [][ /\ handleSkipBack => skipped(-24)
      /\ handleSkipForward => skipped(24) ]_vars

controllerOps ==
  {"slider", "preset", "toggleMode", "skipBack", "skipForward", "tick"}

\* C23: the window and the mode the page holds change only in a step of the
\* timeline (slider, preset, mode button, skip, playback tick), not in a
\* creation, delete or rename of a polygon, a completion of a fetch, a
\* clearing of the cache, an edit of a data source or an import; and after
\* a step of the timeline they are the timeline's window and mode.
C23_WindowOnlyByController ==
  [][ /\ (timeRange' # timeRange \/ isSingleTime' # isSingleTime)
           => lastOp'.op \in controllerOps
      /\ lastOp'.op \in controllerOps
           => /\ isSingleTime' = ~isRangeMode'
              /\ timeRange' =
                   IF isRangeMode'
                   THEN [start |-> rangeValue'[1], end |-> rangeValue'[2]]
                   ELSE [start |-> currentValue'[1], end |-> currentValue'[1]]
    ]_vars

\* C35: the regions painted on the map are the polygons of the store, one
\* layer for each and in the same order: no layer shows a polygon that has
\* been deleted, and no layer is left without a polygon in the store.
C35_RegionsMatchStore ==
  /\ Len(layers) = Len(polygons)
  /\ \A i \in 1..Len(layers) : layers[i] = polygons[i]

\* C36: every selected id is the id of a polygon of the store: the polygon
\* selected on the map, and each member of Index's selectedPolygons.
storeIds == { polygons[i].id : i \in 1..Len(polygons) }

C36_SelectionInStore ==
  /\ selectedPolygon # null => selectedPolygon \in storeIds
  /\ \A i \in 1..Len(selectedPolygons) : selectedPolygons[i] \in storeIds

\* C39: the region count of the metrics panel, polygonCount and the value
\* of the metric 'total-regions', is the number of polygons in the store.
C39_RegionCountIsStoreSize ==
  /\ dashboard.polygonCount = Len(polygons)
  /\ dashboard.regions = Len(polygons)

\* C40: once polygonCount is positive and the user can do nothing more, the
\* refreshing ends: from some point on isLoading is false and no timeout of
\* a refresh is pending.
C40_RefreshTerminates ==
  (dashboard.polygonCount > 0 /\ ~ENABLED (addTestPolygon \/ refreshData))
    ~> [](~dashboard.isLoading /\ dashboard.pending = <<>>)

\* C30: the document of an export holds the polygons, selectedPolygons and
\* timeRange of the page; importing the document of an export gives these
\* three the values they had at the export; and an import of a document
\* without one of the three fields leaves that part of the state as it is.
C30_ExportImportRoundTrip ==
  [][ /\ handleDataExport
           => /\ {"polygons", "selectedPolygons", "timeRange"}
                   \subseteq exported'.file.has
              /\ exported'.file.polygons = polygons
              /\ exported'.file.selectedPolygons = selectedPolygons
              /\ exported'.file.timeRange = timeRange
      /\ ImportExported
           => /\ polygons' = exported.logged.polygons
              /\ selectedPolygons' = exported.logged.selectedPolygons
              /\ timeRange' = exported.logged.timeRange
      /\ \A file \in ImportFiles \cup {exported.file} :
           (handleDataImport(file) /\ lastOp'.op \in {"import", "importExported"})
           => /\ "polygons" \notin file.has => UNCHANGED polygons
              /\ "selectedPolygons" \notin file.has => UNCHANGED selectedPolygons
              /\ "timeRange" \notin file.has => UNCHANGED timeRange ]_vars

\* C31: when localStorage throws, the operation in progress still completes
\* and the state in memory is what it would have been: a mount whose load
\* throws leaves an empty cache, a fetch that succeeds makes its series
\* current and keeps its entry in the cache whether or not the item could be
\* written, and clearCache empties the cache and returns normally.
C31_StorageFailureNeverBlocks ==
  [][ /\ Mount => (mounted' /\ cache' \in {EmptyMap, loadCache(storage, now)})
      /\ \A call \in inflight : \A resp \in Responses :
           (fetchResume(call, resp) /\ resp.kind = "ok")
           => /\ data' = transform(resp.payload)
              /\ call.key \in DOMAIN cache'
              /\ cache'[call.key].data = data'
              /\ ~loading'
      /\ clearCache => (cache' = EmptyMap /\ last'.op = "clear") ]_vars

(***************************************************************************)
(* Properties of the sidebar.                                              *)
(***************************************************************************)
\* C37: the active data sources have pairwise distinct ids.
C37_ActiveIdsDistinct ==
  \A i, j \in 1..Len(activeDataSources) :
    i # j => activeDataSources[i].id # activeDataSources[j].id

\* C24: between 1 and 3 data sources are active; with 3 active none can be
\* added, and the only active source cannot be removed.
C24_OneToThreeActive ==
  /\ 1 <= Len(activeDataSources)
  /\ Len(activeDataSources) <= maxActive
  /\ Len(activeDataSources) = maxActive => ~ENABLED addDataSource
  /\ Len(activeDataSources) = 1 => ~ENABLED RemoveDataSource

C24_Witness ==
  /\ Len(activeDataSources) = maxActive
  /\ lastOp.op = "addDataSource"
  /\ ENABLED RemoveDataSource

\* C25: every entry of the catalogue has its original thresholds and its
\* original flag, so a source that is added again shows the original
\* thresholds.
C25_CatalogUntouched ==
  /\ thresholds = initialThresholds
  /\ catalogIsActive = initialFlags

(***************************************************************************)
(* Properties of playback and of the skips.                                *)
(***************************************************************************)
advancingEdge == IF isRangeMode THEN rangeValue[2] ELSE currentValue[1]

\* C21: playback that is left alone is eventually paused; the tick that
\* pauses it leaves the advancing edge (the end of the range, or the hour)
\* at 720; and while paused the window does not change.
C21_PlaybackStopsAtTheEnd ==
  /\ isPlaying ~> ~isPlaying
  /\ [][ (isPlaying /\ ~isPlaying') => advancingEdge' = maxHours ]_vars
  /\ [][ ~isPlaying
           => UNCHANGED <<isRangeMode, rangeValue, currentValue, timeRange>> ]_vars

(***************************************************************************)
(* Properties of the readers of the series and of the colour rules.        *)
(***************************************************************************)
RECURSIVE sumRange(_, _, _, _)
sumRange(d, field, lo, hi) ==
  IF lo > hi THEN 0
  ELSE numberOrZero(d[lo + 1], field) + sumRange(d, field, lo + 1, hi)


\* C7 as amended: the value of getPolygonAverage for the window (s, e) is the
\* mean of the samples at the indices max(s, 0) .. min(e, N - 1), and 0 when
\* that interval is empty: when the series is empty or s lies beyond N - 1.
C7_MeanOverClippedWindow ==
  probe.op = "getPolygonAverage" =>
    LET N == Len(data)
        lo == Max(probe.start, 0)
        hi == Min(probe.end, N - 1)
    IN  IF N = 0 \/ lo > hi
        THEN NumEq(probe.result, Zero)
        ELSE NumEq(probe.result,
                   <<sumRange(data, probe.field, lo, hi), hi - lo + 1>>)

C7_Witness ==
  /\ probe.op = "getPolygonAverage"
  /\ probe.field = "temperature_2m"
  /\ Len(data) >= 2
  /\ probe.start = 0
  /\ probe.end >= Len(data)
  /\ probe.result = <<sumRange(data, "temperature_2m", 0, Len(data) - 1), Len(data)>>
  /\ data[1] # data[2]

\* C7 as claimed: both ends of the window are clamped into 0 .. N - 1, so a
\* window at or beyond index N yields sample N - 1.
C7_MeanOverClampedWindow ==
  probe.op = "getPolygonAverage" =>
    LET N == Len(data)
        lo == clamp(probe.start, 0, N - 1)
        hi == clamp(probe.end, 0, N - 1)
    IN  IF N = 0
        THEN NumEq(probe.result, Zero)
        ELSE NumEq(probe.result,
                   <<sumRange(data, probe.field, lo, hi), hi - lo + 1>>)

\* C8: on every series and for every hour s, getPolygonAverage for the window
\* (s, s) returns the number getValueAtTime returns for s.
C8_RangeOfOneIsInstant ==
  \A field \in ProbeFields, s \in Hours :
    NumEq(getPolygonAverage(data, DemoCoordinates, field, s, s),
          getValueAtTime(data, DemoCoordinates, field, s))

C8_Witness ==
  /\ probe.op = "getPolygonAverage"
  /\ probe.start = probe.end
  /\ probe.start >= 1
  /\ probe.start < Len(data)
  /\ probe.result[1] # 0
  /\ probe.result = getValueAtTime(data, DemoCoordinates, probe.field, probe.start)

C9_FirstMatchingThreshold ==
  probe.op = "colorRules" =>
    /\ probe.color = firstMatch(availableDataSources[1].thresholds, probe.arg)
    /\ NumLt(probe.arg, Hundredths(1000)) => probe.color = Green
    /\ (~NumLt(probe.arg, Hundredths(1000)) /\ NumLt(probe.arg, Hundredths(2500)))
         => probe.color = Orange
    /\ ~NumLt(probe.arg, Hundredths(2500)) => probe.color = Red

C9_Witness ==
  /\ probe.op = "colorRules"
  /\ probe.arg = Hundredths(2490)
  /\ probe.color = Orange
  /\ probe.color = availableDataSources[1].thresholds.medium.color

\* C10: a recolouring pass reads, for every polygon, the field named by the
\* polygon's data source, and colours the value by the thresholds of that
\* data source as they stand in the sidebar's working set: after the data
\* source of a polygon was changed or a threshold of it edited, the next pass
\* uses the new field and the edited thresholds.
windowValue(d, polygon) ==
  IF isSingleTime'
  THEN getValueAtTime(d, polygon.coordinates, polygon.dataSource, timeRange'.start)
  ELSE getPolygonAverage(d, polygon.coordinates, polygon.dataSource,
                         timeRange'.start, timeRange'.end)

C10_RecolorUsesAssignedSource ==
  [][ (SliderChange \/ toggleRangeMode)
        => \A i \in 1..Len(polygons') :
             /\ polygons'[i].value = <<roundTenths(windowValue(data, polygons'[i]))>>
             /\ polygons'[i].color =
                  firstMatch(thresholds[polygons'[i].dataSource],
                             windowValue(data, polygons'[i])) ]_vars

====
